---- MODULE Spec2Model ----
(***************************************************************************)
(* A state-machine model of the PostgreSQL driver of kysely:               *)
(*   src/src/dialect/postgres/postgres-driver.ts                           *)
(*     class PostgresDriver      (init, acquireConnection,                 *)
(*                                 releaseConnection, destroy)             *)
(*                                 beginTransaction, commitTransaction,    *)
(*                                 rollbackTransaction)                    *)
(*     class PostgresConnection  (executeQuery, streamQuery,               *)
(*                                 [PRIVATE_RELEASE_METHOD])               *)
(*                                                                         *)
(* JavaScript is single-threaded with cooperative suspension: the code     *)
(* between two `await`s runs atomically, so every action below is one      *)
(* such segment of one async call.  Several calls may be suspended at the  *)
(* same time (one per task).  The native collaborators (pg Pool, Client,   *)
(* pool clients, cursors, the user's factories and hook) are modelled by   *)
(* the calls made on them and by the nondeterministic outcome of each      *)
(* awaited call (it resolves or it rejects).                               *)
(***************************************************************************)
EXTENDS Integers, Sequences, FiniteSets, TLC

\* ------------------------------------------------------------------ bounds
\* Total number of driver API calls started in one behaviour.
MaxCalls == 5
\* Number of distinct pools the lazy pool factory can produce.
MaxPools == 2
\* Number of native pool clients one pool owns.
MaxSlots == 2
\* Number of distinct clients the lazy client factory can produce.
MaxClients == 2

\* The concurrent callers (async call chains) of the driver.
Tasks == {"t1", "t2"}

Pools == 1..MaxPools
Slots == 1..MaxSlots
Clients == 1..MaxClients

\* A native client handle: a pooled client of pool p in slot s, or the
\* standalone client number k.
PoolClient(p, s) == <<"pool", p, s>>
SingleClient(k) == <<"single", k, 0>>
PoolClients == {PoolClient(p, s) : p \in Pools, s \in Slots}
SingleClients == {SingleClient(k) : k \in Clients}

\* `undefined` for the optional fields that hold a pool, client or wrapper.
Undefined == 0

VARIABLES
  cfg,               \* #config: [mode, lazy, hook, cursor], frozen
  pool,              \* #pool: Undefined or a pool
  singleClient,      \* #singleClient: Undefined or a client number
  singleConnection,  \* #singleConnection: Undefined or a wrapper
  connections,       \* #connections: pool client -> wrapper (Undefined: no entry)
  conns,             \* the PostgresConnection objects created: conns[w] is w's #client
  pc,                \* per task: where its current async call is suspended
  loc,               \* per task: the local of the suspended call (pool or wrapper)
  calls,             \* number of API calls started
  destroyCalls,      \* number of destroy() calls started
  poolFactoryCalls,  \* invocations of config.pool()
  clientFactoryCalls,\* invocations of config.client()
  poolInstalls,      \* per pool: completions of init() that stored it in #pool
  poolEndCalls,      \* per pool: invocations of pool.end()
  connectCalls,      \* per standalone client: invocations of connect()
  clientEndCalls,    \* per standalone client: invocations of end()
  checkedOut,        \* pool clients currently handed out by their pool
  releaseCalls,      \* per pool client: invocations of release()
  hookCalls,         \* per pool client: invocations of onCreateConnection
  acquired,          \* <<client, wrapper>> of every acquireConnection that returned
  held,              \* per task: wrappers acquired and not yet released
  late,              \* per task: its call in flight started after a destroy() had completed
  lateAcquired,      \* wrappers returned by acquireConnection calls that started so
  hookDone,          \* pool clients whose onCreateConnection call has resolved
  sChunk,            \* streamQuery: the chunkSize argument, in halves (3 is 1.5)
  sTotal,            \* streamQuery: number of rows of the statement's result
  sPc,               \* streamQuery: where the generator body stands
  sQueue,            \* streamQuery: the generator's queue of pending requests
  sRequests,         \* streamQuery: number of requests the consumer has made
  sRead,             \* streamQuery: rows the cursor has delivered so far
  sBatches,          \* streamQuery: the row batches yielded so far
  sCalls,            \* streamQuery: native calls made: [cursor, query, read, close]
  sExit,             \* streamQuery: how the generator body was left
  qPc,               \* per task: "idle", "query" (executeQuery awaits client.query) or
                     \* "await" (executeQuery has settled, the method awaiting it resumes next)
  qOp,               \* per task: the method it called last on the connection: [name, level]
  qSent,             \* per task: the sql that call has passed to client.query
  qLog,              \* the sql of every client.query call made, in order
  qExecCalls,        \* number of executeQuery calls
  qLast,             \* the task whose client.query settled last ("none": none has)
  qNative,           \* how that client.query settled: [outcome, command, rowCount, rows]
  qExec,             \* per task: how its executeQuery settled: "none" (pending), "ok" or "error"
  qOutcome,          \* per task: how its method settled: "none" (pending), "ok" or "error"
  qResult            \* the QueryResult executeQuery built from that native result

driverVars == <<cfg, pool, singleClient, singleConnection, connections, conns>>
taskVars == <<pc, loc, calls, destroyCalls, held>>
nativeVars == <<poolFactoryCalls, clientFactoryCalls, poolInstalls, poolEndCalls,
                connectCalls, clientEndCalls, checkedOut, releaseCalls, hookCalls>>
streamVars == <<sChunk, sTotal, sPc, sQueue, sRequests, sRead, sBatches, sCalls, sExit>>
queryVars == <<qPc, qOp, qSent, qLog, qExecCalls, qLast, qNative, qExec, qOutcome, qResult>>
historyVars == <<late, lateAcquired, hookDone>>
vars == <<driverVars, taskVars, nativeVars, acquired, historyVars, streamVars, queryVars>>

\* ----------------------------------------------------------- configuration
\* PostgresDialectPoolConfig | PostgresDialectClientConfig: which of `pool`
\* and `client` is present, whether it is a factory function, whether the
\* onCreateConnection hook and the cursor constructor are present.
Configs(cursors) ==
  { c \in [mode : {"pool", "client"}, lazy : BOOLEAN, hook : BOOLEAN, cursor : cursors] :
      c.mode = "client" => ~c.hook }

isPoolConfig(config) == config.mode = "pool"

isPoolClient(client) == client[1] = "pool"

\* Rows of the largest result a streamed statement has.
MaxRows == 5
\* Largest chunkSize passed to streamQuery.
MaxChunk == 2
\* Requests the consumer may have pending on the generator at once.
MaxQueue == 2

\* Number of methods called on one connection (each sends one statement).
MaxStatements == 3
\* Largest rowCount a native result reports.
MaxRowCount == 3
\* Largest number of rows a native result returns.
MaxResultRows == 2

\* The value of an eager `pool` / `client` option.
EagerPool == 1
EagerClient == 1

\* No streamQuery generator exists.
NoStream ==
  /\ sChunk = 0
  /\ sTotal = 0
  /\ sPc = "none"
  /\ sQueue = <<>>
  /\ sRequests = 0
  /\ sRead = 0
  /\ sBatches = <<>>
  /\ sCalls = [cursor |-> 0, query |-> 0, read |-> 0, close |-> 0]
  /\ sExit = "none"

\* A native `rows` value: undefined, or an array of rows.
NoRows == <<"undefined", <<>>>>
RowArray(rows) == <<"array", rows>>

\* No method of a connection has been called.
NoNative == [outcome |-> "none", command |-> "", rowCount |-> 0, rows |-> NoRows]
NoResult == [rows |-> <<>>]
NoQuery ==
  /\ qPc = [t \in Tasks |-> "idle"]
  /\ qOp = [t \in Tasks |-> [name |-> "none", level |-> ""]]
  /\ qSent = [t \in Tasks |-> <<>>]
  /\ qLog = <<>>
  /\ qExecCalls = 0
  /\ qLast = "none"
  /\ qNative = NoNative
  /\ qExec = [t \in Tasks |-> "none"]
  /\ qOutcome = [t \in Tasks |-> "none"]
  /\ qResult = NoResult

\* No call has started after a destroy(), and no hook has resolved.
NoHistory ==
  /\ late = [t \in Tasks |-> FALSE]
  /\ lateAcquired = {}
  /\ hookDone = {}

Init ==
  /\ cfg \in Configs({FALSE})
  /\ NoStream
  /\ NoQuery
  /\ pool = Undefined
  /\ singleClient = Undefined
  /\ singleConnection = Undefined
  /\ connections = [h \in PoolClients |-> Undefined]
  /\ conns = <<>>
  /\ pc = [t \in Tasks |-> "idle"]
  /\ loc = [t \in Tasks |-> 0]
  /\ calls = 0
  /\ destroyCalls = 0
  /\ poolFactoryCalls = 0
  /\ clientFactoryCalls = 0
  /\ poolInstalls = [p \in Pools |-> 0]
  /\ poolEndCalls = [p \in Pools |-> 0]
  /\ connectCalls = [k \in Clients |-> 0]
  /\ clientEndCalls = [k \in Clients |-> 0]
  /\ checkedOut = {}
  /\ releaseCalls = [h \in PoolClients |-> 0]
  /\ hookCalls = [h \in PoolClients |-> 0]
  /\ acquired = {}
  /\ held = [t \in Tasks |-> {}]
  /\ NoHistory

\* A task starts a new API call: it is not inside one, and the budget of
\* calls is not used up.
CanCall(t) == pc[t] = "idle" /\ calls < MaxCalls

\* Some destroy() call has completed: more were started than are in flight.
Destroyed == destroyCalls > Cardinality({t \in Tasks : pc[t] = "destroy_end"})

\* The call task t is in, or is starting now, started after a destroy()
\* had completed.
IsLate(t) == IF pc[t] = "idle" THEN Destroyed ELSE late[t]

\* The call of task t is suspended at `where` with local `x`.
Suspend(t, where, x) ==
  /\ pc' = [pc EXCEPT ![t] = where]
  /\ loc' = [loc EXCEPT ![t] = x]
  /\ late' = [late EXCEPT ![t] = IsLate(t)]

\* The call of task t is over (it returned or it threw).
Finish(t) ==
  /\ pc' = [pc EXCEPT ![t] = "idle"]
  /\ loc' = [loc EXCEPT ![t] = 0]
  /\ late' = [late EXCEPT ![t] = FALSE]

\* `return connection` of acquireConnection: the caller of task t receives
\* wrapper w (of the wrappers cs) and holds it until it releases it.
Return(t, w, cs) ==
  /\ acquired' = acquired \cup {<<cs[w], w>>}
  /\ held' = [held EXCEPT ![t] = @ \cup {w}]
  /\ lateAcquired' = IF IsLate(t) THEN lateAcquired \cup {w} ELSE lateAcquired
  /\ Finish(t)

\* ------------------------------------------------------------------ init()
\* init(), up to its only await.  An eager pool is stored at once; a lazy
\* one is asked from the factory, which is invoked here and yields a new pool.
InitCall(t) ==
  /\ UNCHANGED <<streamVars, queryVars, hookDone>>
  /\ CanCall(t)
  /\ calls' = calls + 1
  /\ IF isPoolConfig(cfg)
       THEN IF cfg.lazy
              THEN /\ poolFactoryCalls < MaxPools
                   /\ poolFactoryCalls' = poolFactoryCalls + 1
                   /\ Suspend(t, "init_pool", poolFactoryCalls + 1)
                   /\ UNCHANGED <<pool, poolInstalls>>
              ELSE /\ pool' = EagerPool
                   /\ poolInstalls' = [poolInstalls EXCEPT ![EagerPool] = @ + 1]
                   /\ Finish(t)
                   /\ UNCHANGED poolFactoryCalls
       ELSE /\ Finish(t)
            /\ UNCHANGED <<pool, poolInstalls, poolFactoryCalls>>
  /\ UNCHANGED <<cfg, singleClient, singleConnection, connections, conns, held,
                 destroyCalls, clientFactoryCalls, poolEndCalls, connectCalls,
                 clientEndCalls, checkedOut, releaseCalls, hookCalls, acquired, lateAcquired>>

\* `await this.#config.pool()` resolves: the pool is stored in #pool.
InitResolved(t) ==
  /\ UNCHANGED <<streamVars, queryVars, hookDone>>
  /\ pc[t] = "init_pool"
  /\ pool' = loc[t]
  /\ poolInstalls' = [poolInstalls EXCEPT ![loc[t]] = @ + 1]
  /\ Finish(t)
  /\ UNCHANGED <<cfg, singleClient, singleConnection, connections, conns, calls, held,
                 destroyCalls, poolFactoryCalls, clientFactoryCalls, poolEndCalls,
                 connectCalls, clientEndCalls, checkedOut, releaseCalls, hookCalls,
                 acquired, lateAcquired>>

\* `await this.#config.pool()` rejects: init() throws, #pool is not assigned.
InitRejected(t) ==
  /\ UNCHANGED <<streamVars, queryVars, hookDone>>
  /\ pc[t] = "init_pool"
  /\ Finish(t)
  /\ UNCHANGED <<driverVars, calls, destroyCalls, held, nativeVars, acquired, lateAcquired>>

\* ----------------------------------------------------- acquireConnection()
\* acquireConnection(), up to its first await (or its return).
AcquireCall(t) ==
  /\ UNCHANGED <<streamVars, queryVars, hookDone>>
  /\ CanCall(t)
  /\ calls' = calls + 1
  /\ IF ~isPoolConfig(cfg)
       THEN IF singleConnection = Undefined
              THEN IF cfg.lazy
                     THEN /\ clientFactoryCalls < MaxClients
                          /\ clientFactoryCalls' = clientFactoryCalls + 1
                          /\ Suspend(t, "acq_client", clientFactoryCalls + 1)
                          /\ UNCHANGED <<singleClient, connectCalls, acquired, lateAcquired, held>>
                     ELSE /\ singleClient' = EagerClient
                          /\ connectCalls' = [connectCalls EXCEPT ![EagerClient] = @ + 1]
                          /\ Suspend(t, "acq_connect", 0)
                          /\ UNCHANGED <<clientFactoryCalls, acquired, lateAcquired, held>>
              ELSE /\ Return(t, singleConnection, conns)
                   /\ UNCHANGED <<singleClient, clientFactoryCalls, connectCalls>>
       ELSE /\ IF pool = Undefined
                 THEN Finish(t)
                 ELSE Suspend(t, "acq_pool", pool)
            /\ UNCHANGED <<singleClient, clientFactoryCalls, connectCalls, acquired, lateAcquired, held>>
  /\ UNCHANGED <<cfg, pool, singleConnection, connections, conns, destroyCalls,
                 poolFactoryCalls, poolInstalls, poolEndCalls, clientEndCalls, checkedOut,
                 releaseCalls, hookCalls>>

\* `await this.#config.client()` resolves: the client is stored in
\* #singleClient and connect() is invoked on it.
AcquireClientResolved(t) ==
  /\ UNCHANGED <<streamVars, queryVars, hookDone>>
  /\ pc[t] = "acq_client"
  /\ singleClient' = loc[t]
  /\ connectCalls' = [connectCalls EXCEPT ![loc[t]] = @ + 1]
  /\ Suspend(t, "acq_connect", 0)
  /\ UNCHANGED <<cfg, pool, singleConnection, connections, conns, calls, destroyCalls,
                 held, poolFactoryCalls, clientFactoryCalls, poolInstalls, poolEndCalls,
                 clientEndCalls, checkedOut, releaseCalls, hookCalls, acquired, lateAcquired>>

\* `await this.#config.client()` rejects: acquireConnection() throws.
AcquireClientRejected(t) ==
  /\ UNCHANGED <<streamVars, queryVars, hookDone>>
  /\ pc[t] = "acq_client"
  /\ Finish(t)
  /\ UNCHANGED <<driverVars, calls, destroyCalls, held, nativeVars, acquired, lateAcquired>>

\* `await this.#singleClient!.connect()` resolves: the wrapper is created
\* around the current #singleClient, cached and returned.
AcquireConnectResolved(t) ==
  /\ UNCHANGED <<streamVars, queryVars, hookDone>>
  /\ pc[t] = "acq_connect"
  /\ conns' = Append(conns, SingleClient(singleClient))
  /\ singleConnection' = Len(conns) + 1
  /\ Return(t, Len(conns) + 1, conns')
  /\ UNCHANGED <<cfg, pool, singleClient, connections, calls, destroyCalls, nativeVars>>

\* `await this.#singleClient!.connect()` rejects: acquireConnection() throws.
AcquireConnectRejected(t) ==
  /\ UNCHANGED <<streamVars, queryVars, hookDone>>
  /\ pc[t] = "acq_connect"
  /\ Finish(t)
  /\ UNCHANGED <<driverVars, calls, destroyCalls, held, nativeVars, acquired, lateAcquired>>

\* `if (!connection)`: the pool client has no wrapper yet.
NoConnectionIgnored(h) == TRUE
NoConnection(h) == connections[h] = Undefined

\* `this.#connections.set(client, connection)`.
ConnectionsSetForgotten(h, w) == connections
ConnectionsSetByPool(h, w) ==
  [x \in PoolClients |-> IF x[2] = h[2] THEN w ELSE connections[x]]
ConnectionsSet(h, w) == [connections EXCEPT ![h] = w]

\* `await this.#pool!.connect()` resolves to the pool client h, which the pool
\* had not handed out.  The wrapper is looked up, or created and registered;
\* the hook is invoked for a created wrapper when it is configured.
AcquirePoolConnected(t, h) ==
  /\ UNCHANGED <<streamVars, queryVars, hookDone>>
  /\ pc[t] = "acq_pool"
  /\ h[2] = loc[t]
  /\ h \notin checkedOut
  /\ checkedOut' = checkedOut \cup {h}
  /\ IF NoConnection(h)
       THEN /\ conns' = Append(conns, h)
            /\ connections' = ConnectionsSet(h, Len(conns) + 1)
            /\ IF cfg.hook
                 THEN /\ hookCalls' = [hookCalls EXCEPT ![h] = @ + 1]
                      /\ Suspend(t, "acq_hook", Len(conns) + 1)
                      /\ UNCHANGED <<acquired, lateAcquired, held>>
                 ELSE /\ Return(t, Len(conns) + 1, conns')
                      /\ UNCHANGED hookCalls
       ELSE /\ Return(t, connections[h], conns)
            /\ UNCHANGED <<conns, connections, hookCalls>>
  /\ UNCHANGED <<cfg, pool, singleClient, singleConnection, calls, destroyCalls,
                 poolFactoryCalls, clientFactoryCalls, poolInstalls, poolEndCalls,
                 connectCalls, clientEndCalls, releaseCalls>>

\* `await this.#pool!.connect()` rejects: acquireConnection() throws.
AcquirePoolRejected(t) ==
  /\ UNCHANGED <<streamVars, queryVars, hookDone>>
  /\ pc[t] = "acq_pool"
  /\ Finish(t)
  /\ UNCHANGED <<driverVars, calls, destroyCalls, held, nativeVars, acquired, lateAcquired>>

\* `await this.#config.onCreateConnection(connection)` resolves: the
\* wrapper is returned.
AcquireHookResolved(t) ==
  /\ UNCHANGED <<streamVars, queryVars>>
  /\ pc[t] = "acq_hook"
  /\ Return(t, loc[t], conns)
  /\ hookDone' = hookDone \cup {conns[loc[t]]}
  /\ UNCHANGED <<driverVars, calls, destroyCalls, nativeVars>>

\* The hook rejects: acquireConnection() throws.
AcquireHookRejectedReturned(t) ==
  /\ UNCHANGED <<streamVars, queryVars, hookDone>>
  /\ pc[t] = "acq_hook"
  /\ Return(t, loc[t], conns)
  /\ UNCHANGED <<driverVars, calls, destroyCalls, nativeVars>>
AcquireHookRejected(t) ==
  /\ UNCHANGED <<streamVars, queryVars, hookDone>>
  /\ pc[t] = "acq_hook"
  /\ Finish(t)
  /\ UNCHANGED <<driverVars, calls, destroyCalls, held, nativeVars, acquired, lateAcquired>>

\* ----------------------------------------------------- releaseConnection()
\* PostgresConnection[PRIVATE_RELEASE_METHOD] on wrapper w: release() on its
\* native client when that is a pool client, which returns it to its pool.
PrivateReleaseSkipped(w) == UNCHANGED <<releaseCalls, checkedOut>>
PrivateRelease(w) ==
  IF isPoolClient(conns[w])
    THEN /\ releaseCalls' = [releaseCalls EXCEPT ![conns[w]] = @ + 1]
         /\ checkedOut' = checkedOut \ {conns[w]}
    ELSE UNCHANGED <<releaseCalls, checkedOut>>

\* releaseConnection(connection), by a caller that holds the wrapper.  The
\* call has no await.
ReleaseConnection(t, w) ==
  /\ UNCHANGED <<streamVars, queryVars, hookDone>>
  /\ CanCall(t)
  /\ w \in held[t]
  /\ calls' = calls + 1
  /\ PrivateRelease(w)
  /\ held' = [held EXCEPT ![t] = @ \ {w}]
  /\ UNCHANGED <<driverVars, pc, loc, late, destroyCalls, poolFactoryCalls, clientFactoryCalls,
                 poolInstalls, poolEndCalls, connectCalls, clientEndCalls, hookCalls,
                 acquired, lateAcquired>>

\* --------------------------------------------------------------- destroy()
\* `this.#pool = undefined`, before pool.end() is awaited.
PoolAfterDestroy == Undefined

\* destroy(), up to its await: end() on the single client if there is one,
\* else on the pool after #pool is cleared, else nothing.
DestroyCall(t) ==
  /\ UNCHANGED <<streamVars, queryVars, hookDone>>
  /\ CanCall(t)
  /\ calls' = calls + 1
  /\ destroyCalls' = destroyCalls + 1
  /\ IF singleClient # Undefined
       THEN /\ clientEndCalls' = [clientEndCalls EXCEPT ![singleClient] = @ + 1]
            /\ Suspend(t, "destroy_end", 0)
            /\ UNCHANGED <<pool, poolEndCalls>>
       ELSE IF pool # Undefined
              THEN /\ pool' = PoolAfterDestroy
                   /\ poolEndCalls' = [poolEndCalls EXCEPT ![pool] = @ + 1]
                   /\ Suspend(t, "destroy_end", 0)
                   /\ UNCHANGED clientEndCalls
              ELSE /\ Finish(t)
                   /\ UNCHANGED <<pool, poolEndCalls, clientEndCalls>>
  /\ UNCHANGED <<cfg, singleClient, singleConnection, connections, conns, held,
                 poolFactoryCalls, clientFactoryCalls, poolInstalls, connectCalls,
                 checkedOut, releaseCalls, hookCalls, acquired, lateAcquired>>

\* The awaited end() settles (it resolves or rejects): destroy() is over.
DestroyEndSettled(t) ==
  /\ UNCHANGED <<streamVars, queryVars, hookDone>>
  /\ pc[t] = "destroy_end"
  /\ Finish(t)
  /\ UNCHANGED <<driverVars, calls, destroyCalls, held, nativeVars, acquired, lateAcquired>>

\* ------------------------------------------------------------- streamQuery()
\* PostgresConnection.streamQuery is an async generator.  The consumer makes
\* requests (next(), return(), throw()); the generator serves them one at a
\* time and queues those made while it is running.  The body runs from one
\* suspension (the start, an await, a yield) to the next.

\* chunkSize arguments: the multiples of 1/2 from -1 to MaxChunk.
ChunkHalves == (-2)..(2 * MaxChunk)

\* Number.isInteger(chunkSize), chunkSize given in halves.
IsInteger(halves) == halves % 2 = 0

\* The number a whole chunkSize stands for.
ChunkValue(halves) == halves \div 2

\* The two checks at the head of streamQuery: the error thrown, or "ok".
PrecheckChunkFirst(cursor, halves) ==
  IF ~IsInteger(halves) \/ halves <= 0 THEN "chunk"
  ELSE IF ~cursor THEN "config"
  ELSE "ok"
Precheck(cursor, halves) ==
  IF ~cursor THEN "config"
  ELSE IF ~IsInteger(halves) \/ halves <= 0 THEN "chunk"
  ELSE "ok"

\* The rows of the statement's result, in the cursor's order.
CursorRows == [i \in 1..sTotal |-> i]

\* cursor.read(n): the next n rows, or those that are left.
CursorRead(n) ==
  SubSeq(CursorRows, sRead + 1, IF sRead + n < sTotal THEN sRead + n ELSE sTotal)

\* `if (rows.length === 0) break`.
EndOfRowsShortRead(rows) == Len(rows) < ChunkValue(sChunk)
EndOfRows(rows) == Len(rows) = 0

\* The consumer may make this many requests in all.
MaxRequests == MaxRows + 2

Pop == sQueue' = Tail(sQueue)

\* `finally { await cursor.close() }`: close() is invoked and awaited; the
\* body is being left by `exit`.
Finally(exit) ==
  /\ sCalls' = [sCalls EXCEPT !.close = @ + 1]
  /\ sPc' = "close"
  /\ sExit' = exit

\* The consumer calls next(), return() or throw() on the generator.
ConsumerCall(r) ==
  /\ sPc # "none"
  /\ sRequests < MaxRequests
  /\ Len(sQueue) < MaxQueue
  /\ sQueue' = Append(sQueue, r)
  /\ sRequests' = sRequests + 1
  /\ UNCHANGED <<sChunk, sTotal, sPc, sRead, sBatches, sCalls, sExit>>
  /\ UNCHANGED <<driverVars, taskVars, nativeVars, acquired, historyVars, queryVars>>

\* The first next(): the body runs from its start.  A failed check throws;
\* otherwise the cursor is constructed, passed to client.query and read.
StreamStart ==
  /\ sPc = "start"
  /\ sQueue # <<>> /\ Head(sQueue) = "next"
  /\ IF Precheck(cfg.cursor, sChunk) # "ok"
       THEN /\ sExit' = Precheck(cfg.cursor, sChunk)
            /\ sPc' = "done"
            /\ Pop
            /\ UNCHANGED sCalls
       ELSE /\ sCalls' = [sCalls EXCEPT !.cursor = @ + 1, !.query = @ + 1, !.read = @ + 1]
            /\ sPc' = "read"
            /\ UNCHANGED <<sExit, sQueue>>
  /\ UNCHANGED <<sChunk, sTotal, sRequests, sRead, sBatches>>
  /\ UNCHANGED <<driverVars, taskVars, nativeVars, acquired, historyVars, queryVars>>

\* The first next(), with client.query(cursor) throwing: the body is left
\* before its try block.
StreamQueryThrows ==
  /\ sPc = "start"
  /\ sQueue # <<>> /\ Head(sQueue) = "next"
  /\ Precheck(cfg.cursor, sChunk) = "ok"
  /\ sCalls' = [sCalls EXCEPT !.cursor = @ + 1, !.query = @ + 1]
  /\ sExit' = "query"
  /\ sPc' = "done"
  /\ Pop
  /\ UNCHANGED <<sChunk, sTotal, sRequests, sRead, sBatches>>
  /\ UNCHANGED <<driverVars, taskVars, nativeVars, acquired, historyVars, queryVars>>

\* return() or throw() on a generator that has not started: it completes
\* without running its body.
StreamStartAbrupt ==
  /\ sPc = "start"
  /\ sQueue # <<>> /\ Head(sQueue) \in {"return", "throw"}
  /\ sPc' = "done"
  /\ Pop
  /\ UNCHANGED <<sChunk, sTotal, sRequests, sRead, sBatches, sCalls, sExit>>
  /\ UNCHANGED <<driverVars, taskVars, nativeVars, acquired, historyVars, queryVars>>

\* `await cursor.read(chunkSize)` resolves: no rows break the loop into the
\* finally block, some rows are yielded to the pending next().
StreamReadResolved ==
  /\ sPc = "read"
  /\ LET rows == CursorRead(ChunkValue(sChunk)) IN
       IF EndOfRows(rows)
         THEN /\ Finally("exhausted")
              /\ UNCHANGED <<sQueue, sRead, sBatches>>
         ELSE /\ sBatches' = Append(sBatches, rows)
              /\ sRead' = sRead + Len(rows)
              /\ sPc' = "yield"
              /\ Pop
              /\ UNCHANGED <<sCalls, sExit>>
  /\ UNCHANGED <<sChunk, sTotal, sRequests>>
  /\ UNCHANGED <<driverVars, taskVars, nativeVars, acquired, historyVars, queryVars>>

\* `await cursor.read(chunkSize)` rejects: the finally block runs.
StreamReadRejectedNoFinally ==
  /\ sPc = "read"
  /\ sPc' = "done"
  /\ sExit' = "error"
  /\ Pop
  /\ UNCHANGED <<sChunk, sTotal, sRequests, sRead, sBatches, sCalls>>
  /\ UNCHANGED <<driverVars, taskVars, nativeVars, acquired, historyVars, queryVars>>
StreamReadRejected ==
  /\ sPc = "read"
  /\ Finally("error")
  /\ UNCHANGED <<sChunk, sTotal, sQueue, sRequests, sRead, sBatches>>
  /\ UNCHANGED <<driverVars, taskVars, nativeVars, acquired, historyVars, queryVars>>

\* next() on the generator suspended at its yield: the loop reads again.
StreamResume ==
  /\ sPc = "yield"
  /\ sQueue # <<>> /\ Head(sQueue) = "next"
  /\ sCalls' = [sCalls EXCEPT !.read = @ + 1]
  /\ sPc' = "read"
  /\ UNCHANGED <<sChunk, sTotal, sQueue, sRequests, sRead, sBatches, sExit>>
  /\ UNCHANGED <<driverVars, taskVars, nativeVars, acquired, historyVars, queryVars>>

\* return() or throw() on the generator suspended at its yield (the
\* consumer stops early): the finally block runs.
StreamAbrupt ==
  /\ sPc = "yield"
  /\ sQueue # <<>> /\ Head(sQueue) \in {"return", "throw"}
  /\ Finally(Head(sQueue))
  /\ UNCHANGED <<sChunk, sTotal, sQueue, sRequests, sRead, sBatches>>
  /\ UNCHANGED <<driverVars, taskVars, nativeVars, acquired, historyVars, queryVars>>

\* `await cursor.close()` settles: the generator completes and the pending
\* request is answered.
StreamCloseSettled ==
  /\ sPc = "close"
  /\ sPc' = "done"
  /\ Pop
  /\ UNCHANGED <<sChunk, sTotal, sRequests, sRead, sBatches, sCalls, sExit>>
  /\ UNCHANGED <<driverVars, taskVars, nativeVars, acquired, historyVars, queryVars>>

\* A request on the completed generator is answered at once.
StreamAfterDone ==
  /\ sPc = "done"
  /\ sQueue # <<>>
  /\ Pop
  /\ UNCHANGED <<sChunk, sTotal, sRequests, sRead, sBatches, sCalls, sExit, sPc>>
  /\ UNCHANGED <<driverVars, taskVars, nativeVars, acquired, historyVars, queryVars>>

\* ------------------------------------------------------------ specification
Next ==
  \E t \in Tasks :
    \/ InitCall(t)
    \/ InitResolved(t)
    \/ InitRejected(t)
    \/ AcquireCall(t)
    \/ AcquireClientResolved(t)
    \/ AcquireClientRejected(t)
    \/ AcquireConnectResolved(t)
    \/ AcquireConnectRejected(t)
    \/ \E h \in PoolClients : AcquirePoolConnected(t, h)
    \/ AcquirePoolRejected(t)
    \/ AcquireHookResolved(t)
    \/ AcquireHookRejected(t)
    \/ \E w \in 1..Len(conns) : ReleaseConnection(t, w)
    \/ DestroyCall(t)
    \/ DestroyEndSettled(t)

Spec == Init /\ [][Next]_vars

\* streamQuery(compiledQuery, chunkSize) has been called on the wrapper of a
\* single-client driver after one acquireConnection(); the connection's
\* options hold the configured cursor constructor, or null.
StreamInit ==
  /\ cfg \in {c \in Configs(BOOLEAN) : ~isPoolConfig(c) /\ ~c.lazy}
  /\ pool = Undefined
  /\ singleClient = EagerClient
  /\ singleConnection = 1
  /\ connections = [h \in PoolClients |-> Undefined]
  /\ conns = <<SingleClient(EagerClient)>>
  /\ pc = [t \in Tasks |-> "idle"]
  /\ loc = [t \in Tasks |-> 0]
  /\ calls = 1
  /\ destroyCalls = 0
  /\ poolFactoryCalls = 0
  /\ clientFactoryCalls = 0
  /\ poolInstalls = [p \in Pools |-> 0]
  /\ poolEndCalls = [p \in Pools |-> 0]
  /\ connectCalls = [k \in Clients |-> IF k = EagerClient THEN 1 ELSE 0]
  /\ clientEndCalls = [k \in Clients |-> 0]
  /\ checkedOut = {}
  /\ releaseCalls = [h \in PoolClients |-> 0]
  /\ hookCalls = [h \in PoolClients |-> 0]
  /\ acquired = {<<SingleClient(EagerClient), 1>>}
  /\ held = [t \in Tasks |-> IF t = "t1" THEN {1} ELSE {}]
  /\ NoHistory
  /\ NoQuery
  /\ sChunk \in ChunkHalves
  /\ sTotal \in 0..MaxRows
  /\ sPc = "start"
  /\ sQueue = <<>>
  /\ sRequests = 0
  /\ sRead = 0
  /\ sBatches = <<>>
  /\ sCalls = [cursor |-> 0, query |-> 0, read |-> 0, close |-> 0]
  /\ sExit = "none"

NextStream ==
  \/ \E r \in {"next", "return", "throw"} : ConsumerCall(r)
  \/ StreamStart
  \/ StreamQueryThrows
  \/ StreamStartAbrupt
  \/ StreamReadResolved
  \/ StreamReadRejected
  \/ StreamResume
  \/ StreamAbrupt
  \/ StreamCloseSettled
  \/ StreamAfterDone

SpecStream == StreamInit /\ [][NextStream]_vars

\* ------------------------------------- executeQuery() and the transactions
\* settings.isolationLevel: absent, or one of the levels.
NoLevel == ""
IsolationLevels == {"read committed", "serializable"}

\* The sql of the statements sent; a caller's own statement is UserSql.
BeginSql == <<"begin">>
CommitSql == <<"commit">>
RollbackSql == <<"rollback">>
StartTransactionSql(level) == <<"start transaction isolation level", level>>
UserSql == <<"sql">>

\* The statement beginTransaction sends for settings.isolationLevel.
BeginStatementPlain(level) == BeginSql
BeginStatement(level) ==
  IF level # NoLevel THEN StartTransactionSql(level) ELSE BeginSql

\* The statement commitTransaction sends.
CommitStatementRollback == RollbackSql
CommitStatement == CommitSql

\* The statement rollbackTransaction sends.
RollbackStatement == RollbackSql

\* The commands a native result reports, and the rows it returns.
Commands == {"SELECT", "INSERT", "UPDATE", "DELETE", "CREATE"}
RECURSIVE RowsUpTo(_)
RowsUpTo(n) == IF n = 0 THEN <<>> ELSE Append(RowsUpTo(n - 1), n)
NativeRows == {NoRows} \cup {RowArray(RowsUpTo(n)) : n \in 0..MaxResultRows}

\* BigInt(n) of a whole number: the bigint of that value.
BigInt(n) == <<"bigint", n>>

\* `result.rows ?? []`.
RowsOrEmpty(rows) == IF rows = NoRows THEN <<>> ELSE rows[2]

\* The commands whose result carries the number of affected rows.
MutatingCommandsNoDelete == {"INSERT", "UPDATE"}
MutatingCommands == {"INSERT", "UPDATE", "DELETE"}

\* The QueryResult executeQuery builds from the native result.
QueryResult(native) ==
  IF native.command \in MutatingCommands
    THEN [numUpdatedOrDeletedRows |-> BigInt(native.rowCount),
          numAffectedRows |-> BigInt(native.rowCount),
          rows |-> RowsOrEmpty(native.rows)]
    ELSE [rows |-> RowsOrEmpty(native.rows)]

\* connection.executeQuery(compiledQuery) in the call of task t, up to its
\* await: client.query is invoked with the sql, the first of that call.
ExecuteQuery(t, sql) ==
  /\ qLog' = Append(qLog, sql)
  /\ qExecCalls' = qExecCalls + 1
  /\ qSent' = [qSent EXCEPT ![t] = <<sql>>]
  /\ qPc' = [qPc EXCEPT ![t] = "query"]

\* Task t calls a method on the connection; it is not inside a call of its
\* own, while calls of others on the connection may be pending.
CallMethod(t, name, level) ==
  /\ qPc[t] = "idle"
  /\ Len(qLog) < MaxStatements
  /\ qOp' = [qOp EXCEPT ![t] = [name |-> name, level |-> level]]
  /\ qExec' = [qExec EXCEPT ![t] = "none"]
  /\ qOutcome' = [qOutcome EXCEPT ![t] = "none"]
  /\ UNCHANGED <<qLast, qNative, qResult>>
  /\ UNCHANGED <<driverVars, taskVars, nativeVars, acquired, historyVars, streamVars>>

\* driver.beginTransaction(connection, settings), up to its await.
BeginTransaction(t, level) ==
  /\ CallMethod(t, "begin", level)
  /\ ExecuteQuery(t, BeginStatement(level))

\* driver.commitTransaction(connection), up to its await.
CommitTransaction(t) ==
  /\ CallMethod(t, "commit", NoLevel)
  /\ ExecuteQuery(t, CommitStatement)

\* driver.rollbackTransaction(connection), up to its await.
RollbackTransaction(t) ==
  /\ CallMethod(t, "rollback", NoLevel)
  /\ ExecuteQuery(t, RollbackStatement)

\* connection.executeQuery(compiledQuery) called by the caller itself.
ExecuteQueryCall(t) ==
  /\ CallMethod(t, "execute", NoLevel)
  /\ ExecuteQuery(t, UserSql)

\* executeQuery of task t settles as `how`.  Called by the caller itself, that
\* is how the caller's call settles; called by a transaction method, the
\* method is suspended at `await connection.executeQuery(...)` and resumes in
\* a later step.
ExecuteQuerySettles(t, how) ==
  /\ qExec' = [qExec EXCEPT ![t] = how]
  /\ IF qOp[t].name = "execute"
       THEN /\ qOutcome' = [qOutcome EXCEPT ![t] = how]
            /\ qPc' = [qPc EXCEPT ![t] = "idle"]
       ELSE /\ qPc' = [qPc EXCEPT ![t] = "await"]
            /\ UNCHANGED qOutcome

\* `await this.#client.query(...)` of task t resolves with a native result:
\* executeQuery returns the QueryResult.
QueryResolved(t, command, rowCount, rows) ==
  /\ qPc[t] = "query"
  /\ qLast' = t
  /\ qNative' = [outcome |-> "ok", command |-> command, rowCount |-> rowCount,
                 rows |-> rows]
  /\ qResult' = QueryResult(qNative')
  /\ ExecuteQuerySettles(t, "ok")
  /\ UNCHANGED <<qOp, qSent, qLog, qExecCalls>>
  /\ UNCHANGED <<driverVars, taskVars, nativeVars, acquired, historyVars, streamVars>>

\* `await this.#client.query(...)` of task t rejects: executeQuery throws the
\* error with its stack extended.
QueryRejectedSwallowed(t) ==
  /\ qPc[t] = "query"
  /\ qLast' = t
  /\ qNative' = [NoNative EXCEPT !.outcome = "rejected"]
  /\ qResult' = NoResult
  /\ ExecuteQuerySettles(t, "ok")
  /\ UNCHANGED <<qOp, qSent, qLog, qExecCalls>>
  /\ UNCHANGED <<driverVars, taskVars, nativeVars, acquired, historyVars, streamVars>>
QueryRejected(t) ==
  /\ qPc[t] = "query"
  /\ qLast' = t
  /\ qNative' = [NoNative EXCEPT !.outcome = "rejected"]
  /\ qResult' = NoResult
  /\ ExecuteQuerySettles(t, "error")
  /\ UNCHANGED <<qOp, qSent, qLog, qExecCalls>>
  /\ UNCHANGED <<driverVars, taskVars, nativeVars, acquired, historyVars, streamVars>>

\* The transaction method of task t resumes from
\* `await connection.executeQuery(...)`: it returns when executeQuery
\* returned, and throws the error executeQuery threw.
TransactionResumed(t) ==
  /\ qPc[t] = "await"
  /\ qOutcome' = [qOutcome EXCEPT ![t] = qExec[t]]
  /\ qPc' = [qPc EXCEPT ![t] = "idle"]
  /\ UNCHANGED <<qOp, qSent, qLog, qExecCalls, qLast, qNative, qExec, qResult>>
  /\ UNCHANGED <<driverVars, taskVars, nativeVars, acquired, historyVars, streamVars>>

\* A caller holds the one wrapper that acquireConnection() returned: of the
\* single client, or of a pool client after init().
QueryInit ==
  /\ cfg \in {c \in Configs({FALSE}) : ~c.lazy /\ ~c.hook}
  /\ pool = IF isPoolConfig(cfg) THEN EagerPool ELSE Undefined
  /\ singleClient = IF isPoolConfig(cfg) THEN Undefined ELSE EagerClient
  /\ singleConnection = IF isPoolConfig(cfg) THEN Undefined ELSE 1
  /\ connections = [h \in PoolClients |->
                      IF isPoolConfig(cfg) /\ h = PoolClient(EagerPool, 1)
                        THEN 1 ELSE Undefined]
  /\ conns = IF isPoolConfig(cfg) THEN <<PoolClient(EagerPool, 1)>>
                                  ELSE <<SingleClient(EagerClient)>>
  /\ pc = [t \in Tasks |-> "idle"]
  /\ loc = [t \in Tasks |-> 0]
  /\ calls = IF isPoolConfig(cfg) THEN 2 ELSE 1
  /\ destroyCalls = 0
  /\ poolFactoryCalls = 0
  /\ clientFactoryCalls = 0
  /\ poolInstalls = [p \in Pools |-> IF isPoolConfig(cfg) /\ p = EagerPool THEN 1 ELSE 0]
  /\ poolEndCalls = [p \in Pools |-> 0]
  /\ connectCalls = [k \in Clients |-> IF ~isPoolConfig(cfg) /\ k = EagerClient THEN 1 ELSE 0]
  /\ clientEndCalls = [k \in Clients |-> 0]
  /\ checkedOut = IF isPoolConfig(cfg) THEN {PoolClient(EagerPool, 1)} ELSE {}
  /\ releaseCalls = [h \in PoolClients |-> 0]
  /\ hookCalls = [h \in PoolClients |-> 0]
  /\ acquired = {<<conns[1], 1>>}
  /\ held = [t \in Tasks |-> IF t = "t1" THEN {1} ELSE {}]
  /\ NoHistory
  /\ NoStream
  /\ NoQuery

NextQuery ==
  \/ \E t \in Tasks, level \in IsolationLevels \cup {NoLevel} : BeginTransaction(t, level)
  \/ \E t \in Tasks : CommitTransaction(t)
  \/ \E t \in Tasks : RollbackTransaction(t)
  \/ \E t \in Tasks : ExecuteQueryCall(t)
  \/ \E t \in Tasks : QueryResolved(t, "SELECT", 0, RowArray(<<>>))
  \/ \E t \in Tasks : QueryRejected(t)
  \/ \E t \in Tasks : TransactionResumed(t)

\* The transactions and executeQuery, called by two callers in any order on
\* one connection.  The transaction methods drop the result of their
\* statement, so one native result stands for all of them here.
SpecQuery == QueryInit /\ [][NextQuery]_vars

NextResult ==
  \/ \E t \in Tasks : ExecuteQueryCall(t)
  \/ \E t \in Tasks, command \in Commands, rowCount \in 0..MaxRowCount, rows \in NativeRows :
       QueryResolved(t, command, rowCount, rows)
  \/ \E t \in Tasks : QueryRejected(t)

\* executeQuery called by the callers themselves, with every native result.
SpecResult == QueryInit /\ [][NextResult]_vars

\* ------------------------------------------------------------------ helpers
RECURSIVE SumOver(_, _)
SumOver(f, S) ==
  IF S = {} THEN 0
  ELSE LET x == CHOOSE y \in S : TRUE IN f[x] + SumOver(f, S \ {x})

\* Some caller currently holds wrapper w.
Held(w) == \E t \in Tasks : w \in held[t]

\* ------------------------------------------------------------------- claims

\* C1: in pool mode the onCreateConnection hook is invoked at most once per
\* native pool client over the driver's lifetime: once when the client is
\* first wrapped (so a client whose hook ran has a wrapper), never again
\* when the pool hands the same client out later.
C1_HookAtMostOncePerHandle ==
  \A h \in PoolClients :
    /\ hookCalls[h] <= 1
    /\ hookCalls[h] = 1 => connections[h] # Undefined
    /\ (cfg.hook /\ connections[h] # Undefined) => hookCalls[h] = 1

\* C1 witness: a pool client whose hook ran once was released and has been
\* handed out again to a caller who now holds its wrapper.
C1_Witness ==
  \E h \in PoolClients :
    /\ hookCalls[h] = 1
    /\ releaseCalls[h] >= 1
    /\ h \in checkedOut
    /\ Held(connections[h])

\* C2: in pool mode the association native client -> wrapper is one-to-one
\* and stable: acquisitions that resolved to the same client returned the
\* same wrapper, acquisitions that resolved to distinct clients returned
\* distinct wrappers, and the wrapper returned is the one registered.
C2_WrapperOneToOne ==
  isPoolConfig(cfg) =>
    /\ \A a, b \in acquired : (a[1] = b[1]) <=> (a[2] = b[2])
    /\ \A a \in acquired : connections[a[1]] = a[2]

\* C2 witness: two distinct pool clients have been acquired, and one of
\* them has been released and acquired again.
C2_Witness ==
  /\ isPoolConfig(cfg)
  /\ Cardinality({a[1] : a \in acquired}) >= 2
  /\ \E a \in acquired :
       releaseCalls[a[1]] >= 1 /\ a[1] \in checkedOut /\ Held(a[2])

\* C3 (as claimed): in single-client mode at most one connection wrapper is
\* ever created, and every acquireConnection that returns yields that one
\* wrapper, also when calls overlap before the first has completed.
C3_SingleWrapperOnly ==
  ~isPoolConfig(cfg) =>
    /\ Len(conns) <= 1
    /\ \A a, b \in acquired : a[2] = b[2]

\* C4 (as claimed): in single-client mode the lazy client factory is invoked
\* at most once in the driver's lifetime.
C4_ClientFactoryAtMostOnce == clientFactoryCalls <= 1

\* C5 (as claimed): in pool mode pool.end() is invoked at most once on a
\* pool, however many times destroy() is called in the driver's lifetime.
C5_PoolEndAtMostOnce ==
  isPoolConfig(cfg) => \A p \in Pools : poolEndCalls[p] <= 1

\* C9 (as claimed): in pool mode no sequence of init() calls invokes the
\* lazy pool factory a second time.
C9_PoolFactoryAtMostOnce == poolFactoryCalls <= 1

\* C10: releaseConnection(connection) invokes release() exactly once on the
\* wrapper's native client in pool mode and makes no native call in
\* single-client mode; it never invokes end(), connect(), a factory or the
\* hook, and it leaves the client -> wrapper association and the cached
\* single connection (and #pool, #singleClient) unchanged.
C10_ReleaseFrame ==
  [][\A t \in Tasks : \A w \in 1..Len(conns) :
       ReleaseConnection(t, w) =>
         /\ IF isPoolConfig(cfg)
              THEN /\ conns[w] \in PoolClients
                   /\ releaseCalls' = [releaseCalls EXCEPT ![conns[w]] = @ + 1]
              ELSE releaseCalls' = releaseCalls
         /\ UNCHANGED <<poolEndCalls, clientEndCalls, connectCalls, hookCalls,
                        poolFactoryCalls, clientFactoryCalls, poolInstalls>>
         /\ UNCHANGED <<connections, singleConnection, pool, singleClient, conns>>]_vars

\* C10 witness: a pooled wrapper was released (release() invoked on its
\* client, which is back in the pool) and is still registered for it.
C10_Witness ==
  \E h \in PoolClients :
    /\ releaseCalls[h] = 1
    /\ h \notin checkedOut
    /\ connections[h] # Undefined
    /\ ~Held(connections[h])

\* The cursor was opened: client.query(cursor) returned and the try block
\* was entered (its first statement invokes read()).
CursorOpened == sCalls.read >= 1

RECURSIVE Concat(_)
Concat(batches) ==
  IF batches = <<>> THEN <<>> ELSE Head(batches) \o Concat(Tail(batches))

\* ceil(n / c) for c > 0.
CeilDiv(n, c) == (n + c - 1) \div c

\* C6: for every streamQuery iteration whose cursor was opened,
\* cursor.close() is invoked exactly once when the iteration ends -- by
\* exhaustion, by the consumer stopping early, or by a failed read -- never
\* more than once, never while a read is pending, and no read follows it.
C6_CursorClosedOnce ==
  /\ sCalls.close <= 1
  /\ sCalls.close = 1 => (CursorOpened /\ sPc \in {"close", "done"})
  /\ (sPc = "done" /\ CursorOpened) =>
       (sCalls.close = 1 /\ sExit \in {"exhausted", "return", "throw", "error"})
  /\ sPc = "read" => sCalls.close = 0

\* C6 witness: the consumer stopped early after a batch although rows were
\* left, and the iteration ended with the cursor closed once.
C6_Witness ==
  /\ sPc = "done"
  /\ sExit = "return"
  /\ Len(sBatches) >= 1
  /\ sRead < sTotal
  /\ sCalls.close = 1

\* C7: the batches yielded are non-empty, hold at most chunkSize rows and
\* are the cursor's rows in order; a fully consumed stream of N rows has
\* yielded exactly ceil(N / chunkSize) batches holding all N rows, and ends
\* at the first read that returns no rows.
C7_Batches ==
  LET c == ChunkValue(sChunk) IN
  /\ \A i \in 1..Len(sBatches) : Len(sBatches[i]) >= 1 /\ Len(sBatches[i]) <= c
  /\ Concat(sBatches) = SubSeq(CursorRows, 1, sRead)
  /\ sExit = "exhausted" =>
       /\ Concat(sBatches) = CursorRows
       /\ Len(sBatches) = CeilDiv(sTotal, c)
       /\ sCalls.read = Len(sBatches) + 1

\* C7 witness: 5 rows streamed with chunkSize 2 came as batches of 2, 2 and
\* 1 rows, and the stream has ended.
C7_Witness ==
  /\ sTotal = 5
  /\ ChunkValue(sChunk) = 2
  /\ sPc = "done"
  /\ sExit = "exhausted"
  /\ sBatches = << <<1, 2>>, <<3, 4>>, <<5>> >>

\* chunkSize is 0, negative or not an integer.
BadChunk == ~IsInteger(sChunk) \/ sChunk <= 0

\* C8: without a cursor constructor, or with a chunkSize that is 0,
\* negative or non-integral, streamQuery makes no native call (no cursor,
\* query, read or close) and its first next() fails: with the missing-cursor
\* error whenever no cursor is configured, else with the chunkSize error.
C8_FailsBeforeNative ==
  (~cfg.cursor \/ BadChunk) =>
    /\ sCalls = [cursor |-> 0, query |-> 0, read |-> 0, close |-> 0]
    /\ sPc \in {"none", "start", "done"}
    /\ sBatches = <<>>
    /\ sExit \in {"none", IF ~cfg.cursor THEN "config" ELSE "chunk"}
    /\ (sPc = "start" \/ sPc = "none") => sExit = "none"

\* C8 witness: no cursor constructor and a bad chunkSize: the first next()
\* has failed with the missing-cursor error.
C8_Witness ==
  /\ ~cfg.cursor
  /\ BadChunk
  /\ sPc = "done"
  /\ sExit = "config"

\* C11: beginTransaction issues exactly one statement on the connection:
\* 'start transaction isolation level <level>' with the requested level when
\* settings.isolationLevel is set, the plain 'begin' otherwise, never both.
C11_BeginOneStatement ==
  \A t \in Tasks :
    qOp[t].name = "begin" =>
      qSent[t] = IF qOp[t].level \in IsolationLevels
                   THEN << <<"start transaction isolation level", qOp[t].level>> >>
                   ELSE << <<"begin">> >>

\* C11 witness: a beginTransaction with isolation level serializable has
\* completed after sending its one statement, and so has a plain one.
C11_Witness ==
  /\ qOp["t1"].name = "begin" /\ qOp["t1"].level = "serializable"
  /\ qOutcome["t1"] = "ok" /\ Len(qSent["t1"]) = 1
  /\ qOp["t2"].name = "begin" /\ qOp["t2"].level = NoLevel
  /\ qOutcome["t2"] = "ok" /\ Len(qSent["t2"]) = 1

\* C12: the result executeQuery returns carries an affected-row count exactly
\* when the native command is INSERT, UPDATE or DELETE, and the count is then
\* the native rowCount as a bigint; its rows are the native rows, or the
\* empty sequence when the native result has none.
C12_ResultShape ==
  qNative.outcome = "ok" =>
    /\ ("numAffectedRows" \in DOMAIN qResult)
         <=> qNative.command \in {"INSERT", "UPDATE", "DELETE"}
    /\ ("numAffectedRows" \in DOMAIN qResult)
         => qResult.numAffectedRows = <<"bigint", qNative.rowCount>>
    /\ qResult.rows = (IF qNative.rows[1] = "array" THEN qNative.rows[2] ELSE <<>>)

\* C12 witness: an UPDATE of 3 rows that returns no rows gave its caller the
\* count 3n and the empty row sequence.
C12_Witness ==
  /\ qLast # "none"
  /\ qOp[qLast].name = "execute"
  /\ qOutcome[qLast] = "ok"
  /\ qNative.command = "UPDATE" /\ qNative.rowCount = 3 /\ qNative.rows = NoRows
  /\ qResult.numAffectedRows = <<"bigint", 3>>
  /\ qResult.rows = <<>>

\* C13: each executeQuery call makes exactly one client.query call; when
\* that call fails executeQuery fails (no normal result, no second query),
\* and when it succeeds executeQuery succeeds; the method that called
\* executeQuery settles the same way.
C13_OneQueryPropagated ==
  /\ qExecCalls = Len(qLog)
  /\ \A t \in Tasks :
       /\ qOp[t].name # "none" => Len(qSent[t]) = 1
       /\ qPc[t] = "query" => qExec[t] = "none"
       /\ (qPc[t] # "query" /\ qOp[t].name # "none") => qExec[t] \in {"ok", "error"}
       /\ (qLast = t /\ qPc[t] # "query") =>
            \/ qNative.outcome = "ok" /\ qExec[t] = "ok"
            \/ qNative.outcome = "rejected" /\ qExec[t] = "error"
       /\ qPc[t] = "await" => qOutcome[t] = "none"
       /\ (qPc[t] = "idle" /\ qOp[t].name # "none") => qOutcome[t] = qExec[t]

\* C13 witness: the client.query of a commitTransaction was rejected, its
\* executeQuery has failed and the method has thrown after that one query,
\* while an executeQuery call of another caller succeeded.
C13_Witness ==
  /\ qOp["t1"].name = "commit" /\ qPc["t1"] = "idle"
  /\ qLast = "t1" /\ qNative.outcome = "rejected"
  /\ qExec["t1"] = "error" /\ qOutcome["t1"] = "error"
  /\ Len(qSent["t1"]) = 1
  /\ qOp["t2"].name = "execute" /\ qOutcome["t2"] = "ok"

\* C15: commitTransaction and rollbackTransaction each issue exactly one
\* statement, 'commit' and 'rollback', and leave all driver state unchanged
\* (#pool, #connections, #singleClient, #singleConnection, the wrappers),
\* whatever was called before and however often.
C15_CommitRollbackFrame ==
  /\ [](\A t \in Tasks :
          /\ qOp[t].name = "commit" => qSent[t] = << <<"commit">> >>
          /\ qOp[t].name = "rollback" => qSent[t] = << <<"rollback">> >>)
  /\ [][(\E t \in Tasks : qOp[t].name \in {"commit", "rollback"}
                           \/ qOp'[t].name \in {"commit", "rollback"})
          => UNCHANGED <<driverVars, nativeVars, held>>]_vars

\* C15 witness: commit, commit and rollback were called one after the
\* other on one connection, the rollback while the second commit was still
\* pending, and the rollback has completed.
C15_Witness ==
  /\ qLog = << <<"commit">>, <<"commit">>, <<"rollback">> >>
  /\ qOp["t1"].name = "commit" /\ qOutcome["t1"] = "none"
  /\ qOp["t2"].name = "rollback" /\ qOutcome["t2"] = "ok"

\* The number of destroy() calls that have completed.
DestroysCompleted == destroyCalls - Cardinality({t \in Tasks : pc[t] = "destroy_end"})

\* C14: in single-client mode, when a destroy() call completes, end() has
\* been invoked on every native client on which the driver invoked connect().
C14_DestroyEndsEveryClient ==
  [][(~isPoolConfig(cfg) /\ DestroysCompleted' > DestroysCompleted)
       => \A k \in Clients : connectCalls'[k] > 0 => clientEndCalls'[k] > 0]_vars

\* C16: the destroyed state is terminal: no acquireConnection call that
\* starts after a destroy() has completed returns a connection wrapper, in
\* pool mode and in single-client mode alike.
C16_DestroyedIsTerminal == lateAcquired = {}

\* C17: no pooled handle is leaked: every pool client obtained from
\* pool.connect() and not released is held by a caller inside its wrapper, or
\* is still inside the acquireConnection call that obtained it.
C17_NoHandleLeaked ==
  \A h \in checkedOut :
    \/ Held(connections[h])
    \/ \E t \in Tasks : pc[t] = "acq_hook" /\ conns[loc[t]] = h

\* C18: in pool mode with the hook configured, every wrapper acquireConnection
\* has returned is the wrapper of a pool client whose onCreateConnection call
\* had resolved: none whose hook is still running, none whose hook failed.
C18_ReturnedAfterHook ==
  (isPoolConfig(cfg) /\ cfg.hook) =>
    /\ \A a \in acquired : a[1] \in hookDone
    /\ \A t \in Tasks : \A w \in held[t] : conns[w] \in hookDone

\* C18 witness: one pool client's hook has resolved and its wrapper was
\* returned; another pool client's hook has failed and nobody received its
\* wrapper.
C18_Witness ==
  /\ isPoolConfig(cfg) /\ cfg.hook
  /\ \E a \in acquired : a[1] \in hookDone /\ Held(a[2])
  /\ \E h \in PoolClients :
       /\ hookCalls[h] = 1
       /\ h \notin hookDone
       /\ \A t \in Tasks : pc[t] # "acq_hook"
       /\ \A a \in acquired : a[1] # h

\* Two different callers never hold the same wrapper, nor wrappers of the
\* same native handle, at the same time.
HeldExclusively ==
  \A t1, t2 \in Tasks : t1 # t2 =>
    \A w1 \in held[t1], w2 \in held[t2] : w1 # w2 /\ conns[w1] # conns[w2]

\* C19 as stated: a connection is held exclusively, in pool mode and in
\* single-client mode: at no time do two callers both hold the same wrapper
\* between their acquireConnection and their releaseConnection.
C19_HeldExclusivelyBothModes == HeldExclusively

\* C19 amended: in pool mode, with a pool that hands a handle to one holder
\* at a time, a connection is held exclusively: no two callers hold the same
\* wrapper, or wrappers of the same native handle, at the same time.
C19_HeldExclusivelyInPoolMode == isPoolConfig(cfg) => HeldExclusively

\* C19 witness: in pool mode both callers hold a wrapper at the same time,
\* after an earlier holder of one of the pool clients has released it.
C19_Witness ==
  /\ isPoolConfig(cfg)
  /\ held["t1"] # {} /\ held["t2"] # {}
  /\ \E h \in checkedOut : releaseCalls[h] > 0

\* C20: in single-client mode, end() is invoked at most once on a native
\* client, no matter how many times destroy() is called.
C20_ClientEndAtMostOnce ==
  ~isPoolConfig(cfg) => \A k \in Clients : clientEndCalls[k] <= 1

====
